---- MODULE Spec2Model ----
(***************************************************************************)
(* A model of bantam, a Pratt ("top down operator precedence") parser:     *)
(* the token stack of src/lexer.go (Stack, the test lexer, the tokens and  *)
(* the nodes) and the parser of src/bantam.go (Parse, parseExpression and  *)
(* the prefix and infix parsers).                                          *)
(***************************************************************************)
EXTENDS Integers, Sequences, FiniteSets, TLC

VARIABLES
    stack,      \* Stack: [lexer |-> [src, pos, calls], tokens, count]
    parser,     \* Parser: [PrefixParsers, InfixParsers], the instance's maps
    frames,     \* the goroutine's call stack below Parse
    status,     \* where the caller of the package stands
    n,          \* Parse's result n
    err,        \* Parse's result err
    panicVal,   \* the value of the panic in flight
    fmt,        \* fmt.Sprintf rendering token types: [kinds, depth, then]
    consumed,   \* history: the tokens the operations have consumed
    last,       \* history: the last operation, its argument and result
    rendered    \* history: the renderings of the trees parsed so far

vars ==
    <<stack, parser, frames, status, n, err, panicVal, fmt, consumed, last,
      rendered>>

----------------------------------------------------------------------------
(* Bounds of the model. *)

MaxSrcLen == 2          \* characters in a source of the stack clients
MaxPush == 2            \* tokens in one client Push
MaxPeek == 1            \* greatest index a client peeks
MaxCount == 3           \* pushed-back tokens a client lets build up
MaxConsumed == 2        \* tokens a client consumes
MaxStackDepth == 2      \* nested String calls the goroutine stack can hold

----------------------------------------------------------------------------
(* Tokens: src/lexer.go, the token part. *)

TokenEOF == 0
TokenName == 1
TokenAsterisk == 2
TokenSlash == 3
TokenPlus == 4
TokenMinus == 5
TokenCaret == 6
TokenTilde == 7
TokenAssignment == 8
TokenQuestion == 9
TokenExclamation == 10
TokenParenL == 11
TokenParenR == 12
TokenColon == 13
TokenComma == 14

tokenNames ==
    (TokenEOF :> "EOF") @@ (TokenAsterisk :> "*") @@ (TokenSlash :> "/") @@
    (TokenPlus :> "+") @@ (TokenMinus :> "-") @@ (TokenCaret :> "^") @@
    (TokenTilde :> "~") @@ (TokenAssignment :> "=") @@
    (TokenQuestion :> "?") @@ (TokenExclamation :> "!") @@
    (TokenParenL :> "(") @@ (TokenParenR :> ")") @@ (TokenColon :> ":") @@
    (TokenComma :> ",")

Token(type, text) == [Type |-> type, Text |-> text]

\* Token.String: the symbol of the kind, else the token's text.
TokenString(t) ==
    IF t.Type \in DOMAIN tokenNames THEN tokenNames[t.Type] ELSE t.Text

----------------------------------------------------------------------------
(* The test lexer: src/bantam_test.go.  A source is a sequence of           *)
(* one-character strings.                                                   *)

stringToToken ==
    ("*" :> TokenAsterisk) @@ ("/" :> TokenSlash) @@ ("+" :> TokenPlus) @@
    ("-" :> TokenMinus) @@ ("^" :> TokenCaret) @@ ("~" :> TokenTilde) @@
    ("=" :> TokenAssignment) @@ ("?" :> TokenQuestion) @@
    ("!" :> TokenExclamation) @@ ("(" :> TokenParenL) @@
    (")" :> TokenParenR) @@ (":" :> TokenColon) @@ ("," :> TokenComma)

NewLexer(src) == [src |-> src, pos |-> 0, calls |-> 0]

\* lexer.Next from position pos: [tok, pos].
RECURSIVE Scan(_, _)
Scan(src, pos) ==
    IF pos < Len(src)
    THEN LET s == src[pos + 1] IN
         IF s = " " THEN Scan(src, pos + 1)
         ELSE IF s \in DOMAIN stringToToken
              THEN [tok |-> Token(stringToToken[s], ""), pos |-> pos + 1]
              ELSE [tok |-> Token(TokenName, s), pos |-> pos + 1]
    ELSE [tok |-> Token(TokenEOF, ""), pos |-> pos]

\* lexer.Next: [tok, lexer]; calls counts the invocations (a ghost field).
LexerNext(l) ==
    LET r == Scan(l.src, l.pos) IN
    [tok |-> r.tok,
     lexer |-> [l EXCEPT !.pos = r.pos, !.calls = l.calls + 1]]

----------------------------------------------------------------------------
(* Stack: src/lexer.go.  tokens is the Go slice (entries at and above      *)
(* count are stale), indexed from 1 here and from 0 in the source.          *)

NewStack(lexer) == [lexer |-> lexer, tokens |-> <<>>, count |-> 0]

\* Push without the cut at count: append(s.tokens, t...).
PushUncut(s, t) ==
    [s EXCEPT !.tokens = s.tokens \o t, !.count = s.count + Len(t)]

\* Stack.Push(t...)
Push(s, t) ==
    [s EXCEPT !.tokens = SubSeq(s.tokens, 1, s.count) \o t,
              !.count = s.count + Len(t)]

\* Stack.Pop: [tok, s]
Pop(s) ==
    IF s.count = 0
    THEN LET r == LexerNext(s.lexer) IN
         [tok |-> r.tok, s |-> [s EXCEPT !.lexer = r.lexer]]
    ELSE [tok |-> s.tokens[s.count], s |-> [s EXCEPT !.count = s.count - 1]]

\* The loop of Stack.Peek: t[index] = s.Pop() for index down to 0.
\* t is indexed from 0 as in the source: a function on 0..index.
RECURSIVE PeekFill(_, _, _)
PeekFill(s, t, index) ==
    IF index >= 0
    THEN LET r == Pop(s) IN PeekFill(r.s, [t EXCEPT ![index] = r.tok], index - 1)
    ELSE [t |-> t, s |-> s]

\* Stack.Peek(index): [tok, s, panic]
Peek(s, index) ==
    IF index = 0
    THEN LET r == Pop(s) IN
         [tok |-> r.tok, s |-> Push(r.s, <<r.tok>>), panic |-> FALSE]
    ELSE IF index > 0
    THEN IF index < s.count
         THEN [tok |-> s.tokens[index + 1], s |-> s, panic |-> FALSE]
         ELSE LET f == PeekFill(s, [i \in 0..index |-> Token(TokenEOF, "")], index)
                  t == [i \in 1..(index + 1) |-> f.t[i - 1]]
              IN [tok |-> f.t[0], s |-> Push(f.s, t), panic |-> FALSE]
    ELSE [tok |-> Token(TokenEOF, ""), s |-> s, panic |-> TRUE]

\* Stack.Expect(expected...): [ok, tok, s]; not ok is the panic, raised
\* after the token is pushed back.  expected is a sequence of kinds.
Expect(s, expected) ==
    LET r == Pop(s)
        found == IF Len(expected) = 1
                 THEN r.tok.Type = expected[1]
                 ELSE \E i \in 1..Len(expected) : r.tok.Type = expected[i]
    IN IF found
       THEN [ok |-> TRUE, tok |-> r.tok, s |-> r.s]
       ELSE [ok |-> FALSE, tok |-> r.tok, s |-> Push(r.s, <<r.tok>>)]

\* Match without the push back of a token of another kind.
MatchKeeps(s, expected) ==
    LET r == Pop(s) IN
    [ok |-> r.tok.Type = expected, tok |-> r.tok, s |-> r.s]

\* Stack.Match(expected): [ok, tok, s]
Match(s, expected) ==
    LET r == Pop(s) IN
    IF r.tok.Type # expected
    THEN [ok |-> FALSE, tok |-> r.tok, s |-> Push(r.s, <<r.tok>>)]
    ELSE [ok |-> TRUE, tok |-> r.tok, s |-> r.s]

\* The tokens k successive Pops return from s.
RECURSIVE PopSeq(_, _)
PopSeq(s, k) ==
    IF k = 0 THEN <<>>
    ELSE LET r == Pop(s) IN <<r.tok>> \o PopSeq(r.s, k - 1)

----------------------------------------------------------------------------
(* TokenType.String and the panics: src/lexer.go, src/bantam.go.           *)

\* TokenType.String: the symbol of a kind of tokenNames is returned; for
\* any other kind fmt.Sprintf("<%s>", t) calls t.String() again.
TokenTypeString(t) ==
    IF t \in DOMAIN tokenNames
    THEN [done |-> TRUE, s |-> tokenNames[t]]
    ELSE [done |-> FALSE, s |-> ""]

NoPanic == [type |-> "nil", format |-> "", args |-> <<>>]

\* panic(fmt.Sprintf(format, args...)): the value is a string.
StringPanic(format, args) == [type |-> "string", format |-> format, args |-> args]

NoFmt == [kinds |-> <<>>, depth |-> 0, then |-> NoPanic]

\* The panic of Stack.Expect, whose message renders the expected kinds and
\* the kind found with TokenType.String.
ExpectFmt(expected, t) ==
    [kinds |-> expected \o <<t.Type>>, depth |-> 0,
     then |-> StringPanic("expected token %s and found %s", <<expected, t.Type>>)]

\* One call of TokenType.String during the Sprintf of Stack.Expect.  A kind
\* without a name recurses until the goroutine stack is exhausted, which
\* the runtime ends with a fatal error no recover() sees.
StringStep ==
    /\ status = "formatting"
    /\ LET r == TokenTypeString(Head(fmt.kinds)) IN
       IF r.done
       THEN IF Len(fmt.kinds) = 1
            THEN /\ status' = "panicking"
                 /\ panicVal' = fmt.then
                 /\ fmt' = NoFmt
            ELSE /\ fmt' = [fmt EXCEPT !.kinds = Tail(fmt.kinds), !.depth = 0]
                 /\ UNCHANGED <<status, panicVal>>
       ELSE IF fmt.depth >= MaxStackDepth
            THEN /\ status' = "fatal"
                 /\ UNCHANGED <<fmt, panicVal>>
            ELSE /\ fmt' = [fmt EXCEPT !.depth = fmt.depth + 1]
                 /\ UNCHANGED <<status, panicVal>>
    /\ UNCHANGED <<stack, parser, frames, n, err, consumed, last, rendered>>

----------------------------------------------------------------------------
(* Nodes: src/lexer.go, the node part.  A node is a tuple led by its type. *)

NilNode == <<"nil">>
NewNameNode(name) == <<"Name", name>>
NewUnaryNode(operator, right) == <<"Unary", operator, right>>
NewUnaryPostfixNode(left, operator) == <<"UnaryPostfix", left, operator>>
NewBinaryNode(left, operator, right) == <<"Binary", left, operator, right>>
NewAssignNode(name, right) == <<"Assign", name, right>>
NewListNode == <<"List", <<>> >>
\* ListNode.Append putting the node in front of the list.
ListPrepend(list, node) == <<"List", <<node>> \o list[2]>>
ListAppend(list, node) == <<"List", Append(list[2], node)>>
NewFunctionNode(function, args) == <<"Function", function, args>>
NewTernaryNode(condition, list, elseList) == <<"Ternary", condition, list, elseList>>

\* listNode(n): n when it is a list, else a list holding n.
listNode(node) == IF node[1] = "List" THEN node ELSE ListAppend(NewListNode, node)

\* The characters of the display form of an operator of a node.
Symbol(operator) ==
    LET r == TokenTypeString(operator) IN
    IF r.s = "EOF" THEN <<"E", "O", "F">> ELSE <<r.s>>

\* Node.String, as a sequence of characters.
RECURSIVE NodeString(_)
RECURSIVE Join(_, _)
\* FunctionNode.String's loop writing ", " after every argument.
JoinTrailing(nodes, k) ==
    IF k > Len(nodes) THEN <<>>
    ELSE NodeString(nodes[k]) \o <<",", " ">> \o Join(nodes, k + 1)
\* FunctionNode.String's loop: the arguments from k on, ", " between them.
Join(nodes, k) ==
    IF k > Len(nodes) THEN <<>>
    ELSE NodeString(nodes[k])
            \o (IF k - 1 < Len(nodes) - 1 THEN <<",", " ">> ELSE <<>>)
            \o Join(nodes, k + 1)
\* ListNode.String's loop: the nodes from k on, nothing between them.
RECURSIVE Concat(_, _)
Concat(nodes, k) ==
    IF k > Len(nodes) THEN <<>>
    ELSE NodeString(nodes[k]) \o Concat(nodes, k + 1)
NodeString(node) ==
    CASE node[1] = "Name" -> <<node[2]>>
      [] node[1] = "Assign" ->
            <<"(", node[2], " ", "=", " ">> \o NodeString(node[3]) \o <<")">>
      [] node[1] = "Binary" ->
            <<"(">> \o NodeString(node[2]) \o <<" ">> \o Symbol(node[3])
                \o <<" ">> \o NodeString(node[4]) \o <<")">>
      [] node[1] = "Function" ->
            NodeString(node[2]) \o <<"(">> \o Join(node[3][2], 1) \o <<")">>
      [] node[1] = "List" -> Concat(node[2], 1)
      [] node[1] = "Ternary" ->
            <<"(">> \o NodeString(node[2]) \o <<" ", "?", " ">>
                \o NodeString(node[3]) \o <<" ", ":", " ">>
                \o NodeString(node[4]) \o <<")">>
      [] node[1] = "Unary" ->
            <<"(">> \o Symbol(node[2]) \o NodeString(node[3]) \o <<")">>
      [] node[1] = "UnaryPostfix" ->
            <<"(">> \o NodeString(node[2]) \o Symbol(node[3]) \o <<")">>

----------------------------------------------------------------------------
(* The registries: src/bantam.go.  A handler is its type and its int.      *)

Handler(type, p) == [type |-> type, p |-> p]

PrefixParsers ==
    (TokenName :> Handler("NameParser", 0)) @@
    (TokenParenL :> Handler("GroupParser", 0)) @@
    (TokenPlus :> Handler("UnaryParser", 6)) @@
    (TokenMinus :> Handler("UnaryParser", 6)) @@
    (TokenTilde :> Handler("UnaryParser", 6)) @@
    (TokenExclamation :> Handler("UnaryParser", 6))

InfixParsers ==
    (TokenAssignment :> Handler("AssignParser", 1)) @@
    (TokenQuestion :> Handler("TernaryParser", 2)) @@
    (TokenPlus :> Handler("BinaryParser", 3)) @@
    (TokenMinus :> Handler("BinaryParser", 3)) @@
    (TokenAsterisk :> Handler("BinaryParser", 4)) @@
    (TokenSlash :> Handler("BinaryParser", 4)) @@
    (TokenCaret :> Handler("BinaryRightParser", 5)) @@
    (TokenExclamation :> Handler("UnaryPostfixParser", 7)) @@
    (TokenParenL :> Handler("FunctionParser", 8))

EmptyMap == [k \in {} |-> Handler("", 0)]

\* NewParser(stack): both maps are made empty.
NewParser == [PrefixParsers |-> EmptyMap, InfixParsers |-> EmptyMap]

\* &Parser{s, PrefixParsers, InfixParsers}, as the test builds it.
BuiltinParser == [PrefixParsers |-> PrefixParsers, InfixParsers |-> InfixParsers]

----------------------------------------------------------------------------
(* A client of the Stack: one action per method of its interface.          *)

Op(op, arg, tok, ok, taken) ==
    [op |-> op, arg |-> arg, tok |-> tok, ok |-> ok, taken |-> taken]

NoOp == Op("none", 0, Token(TokenEOF, ""), TRUE, 0)

\* Calls of lexer.Next between two states of the stack.
Taken(s, t) == t.lexer.calls - s.lexer.calls

RECURSIVE SeqsUpTo(_, _)
SeqsUpTo(S, k) ==
    IF k = 0 THEN {<<>>}
    ELSE LET R == SeqsUpTo(S, k - 1) IN
         R \cup {Append(q, x) : q \in {r \in R : Len(r) = k - 1}, x \in S}

StackChars == {"a", ")"}
PushTokens == {Token(TokenName, "b"), Token(TokenComma, "")}
ExpectArgs == {<<TokenParenR>>, <<TokenComma, TokenParenR>>}

InitStack ==
    /\ \E src \in SeqsUpTo(StackChars, MaxSrcLen) : stack = NewStack(NewLexer(src))
    /\ parser = NewParser
    /\ frames = <<>>
    /\ status = "idle"
    /\ n = NilNode
    /\ err = NoPanic
    /\ panicVal = NoPanic
    /\ fmt = NoFmt
    /\ consumed = <<>>
    /\ last = NoOp
    /\ rendered = <<>>

ClientFrame == UNCHANGED <<parser, frames, n, err, rendered>>

ClientPop ==
    /\ status = "idle"
    /\ Len(consumed) < MaxConsumed
    /\ LET r == Pop(stack) IN
       /\ stack' = r.s
       /\ consumed' = Append(consumed, r.tok)
       /\ last' = Op("Pop", 0, r.tok, TRUE, Taken(stack, r.s))
    /\ UNCHANGED <<status, panicVal, fmt>>
    /\ ClientFrame

ClientPush ==
    /\ status = "idle"
    /\ \E t \in SeqsUpTo(PushTokens, MaxPush) :
        /\ Len(t) >= 1
        /\ stack.count + Len(t) <= MaxCount
        /\ stack' = Push(stack, t)
        /\ last' = Op("Push", t, Token(TokenEOF, ""), TRUE, 0)
    /\ UNCHANGED <<status, panicVal, fmt, consumed>>
    /\ ClientFrame

ClientPeek ==
    /\ status = "idle"
    /\ \E index \in (-1)..MaxPeek :
        LET r == Peek(stack, index) IN
        /\ stack' = r.s
        /\ last' = Op("Peek", index, r.tok, ~r.panic, Taken(stack, r.s))
        /\ status' = IF r.panic THEN "panicking" ELSE status
        /\ panicVal' = IF r.panic
                       THEN StringPanic("Peek received negative index", <<>>)
                       ELSE panicVal
    /\ UNCHANGED <<fmt, consumed>>
    /\ ClientFrame

ClientMatch ==
    /\ status = "idle"
    /\ Len(consumed) < MaxConsumed
    /\ LET r == Match(stack, TokenParenR) IN
       /\ stack' = r.s
       /\ consumed' = IF r.ok THEN Append(consumed, r.tok) ELSE consumed
       /\ last' = Op("Match", TokenParenR, r.tok, r.ok, Taken(stack, r.s))
    /\ UNCHANGED <<status, panicVal, fmt>>
    /\ ClientFrame

ClientExpect ==
    /\ status = "idle"
    /\ Len(consumed) < MaxConsumed
    /\ \E expected \in ExpectArgs :
        LET r == Expect(stack, expected) IN
        /\ stack' = r.s
        /\ consumed' = IF r.ok THEN Append(consumed, r.tok) ELSE consumed
        /\ last' = Op("Expect", expected, r.tok, r.ok, Taken(stack, r.s))
        /\ status' = IF r.ok THEN status ELSE "formatting"
        /\ fmt' = IF r.ok THEN fmt ELSE ExpectFmt(expected, r.tok)
    /\ UNCHANGED panicVal
    /\ ClientFrame

\* The client recovers from the panic of Expect or Peek and goes on using
\* the Stack.
ClientRecover ==
    /\ status = "panicking"
    /\ Len(frames) = 0
    /\ status' = "idle"
    /\ panicVal' = NoPanic
    /\ UNCHANGED <<stack, fmt, consumed, last>>
    /\ ClientFrame

\* A client that uses the whole interface of the Stack.
NextStack ==
    \/ ClientPop
    \/ ClientPush
    \/ ClientPeek
    \/ ClientMatch
    \/ ClientExpect
    \/ ClientRecover
    \/ StringStep

SpecStack == InitStack /\ [][NextStack]_vars

\* A client that reads the stream: every method but Push, as the parser.
NextBuffer ==
    \/ ClientPop
    \/ ClientPeek
    \/ ClientMatch
    \/ ClientExpect
    \/ ClientRecover
    \/ StringStep

SpecBuffer == InitStack /\ [][NextBuffer]_vars

----------------------------------------------------------------------------
(* The parser: src/bantam.go.  A frame is one call in progress: of Parse,   *)
(* of parseExpression (p is its precedence argument) or of the Parse        *)
(* method of a prefix or infix parser (p is the parser's int).              *)

NoToken == Token(TokenEOF, "")

Frame(fn, p, token, left) ==
    [fn |-> fn, pc |-> "begin", p |-> p, token |-> token, left |-> left,
     val |-> NilNode, args |-> NewListNode]

Top == frames[Len(frames)]

At(fn, pc) ==
    /\ status = "running"
    /\ Len(frames) > 0
    /\ Top.fn = fn
    /\ Top.pc = pc

\* The call stack once the running call, left as top, has called callee.
Call(top, callee) == [frames EXCEPT ![Len(frames)] = top] \o <<callee>>

\* The call stack once the running call has returned node: parseExpression
\* assigns what a parser returns to left, every other caller to a local.
Return(node) ==
    LET k == Len(frames) - 1
        caller == frames[k]
    IN [SubSeq(frames, 1, k) EXCEPT ![k] =
            IF caller.fn = "parseExpression"
            THEN [caller EXCEPT !.left = node]
            ELSE [caller EXCEPT !.val = node]]

Step(stack2, frames2, status2, panic2, fmt2, consumed2, last2) ==
    /\ stack' = stack2
    /\ frames' = frames2
    /\ status' = status2
    /\ panicVal' = panic2
    /\ fmt' = fmt2
    /\ consumed' = consumed2
    /\ last' = last2
    /\ UNCHANGED <<parser, n, err, rendered>>

\* The running call goes on, calls or returns.
Goes(frames2, stack2, consumed2, last2) ==
    Step(stack2, frames2, status, panicVal, fmt, consumed2, last2)

\* Parser.errorf: panic(fmt.Sprintf(format, args...)).
errorf(format, args, stack2, consumed2, last2) ==
    Step(stack2, frames, "panicking", StringPanic(format, args), fmt,
         consumed2, last2)

\* A call of Stack.Expect by the running call, which goes on with frames2
\* when the token is of an expected kind.
Expects(expected, e, frames2, name) ==
    LET l == Op(name, expected, e.tok, e.ok, Taken(stack, e.s)) IN
    IF e.ok
    THEN Goes(frames2, e.s, Append(consumed, e.tok), l)
    ELSE Step(e.s, frames, "formatting", panicVal, ExpectFmt(expected, e.tok),
              consumed, l)

\* Parser.Parse: the call of parseExpression(0), under the deferred recover.
Parse ==
    /\ status = "idle"
    /\ Step(stack,
            <<[Frame("Parse", 0, NoToken, NilNode) EXCEPT !.pc = "return"],
              Frame("parseExpression", 0, NoToken, NilNode)>>,
            "running", panicVal, fmt, consumed,
            Op("Parse", 0, NoToken, TRUE, 0))

\* Parser.Parse returns (n, nil); the deferred recover finds no panic.
ParseReturn ==
    /\ At("Parse", "return")
    /\ n' = Top.val
    /\ err' = NoPanic
    /\ status' = "returned"
    /\ frames' = <<>>
    /\ last' = Op("ParseReturn", 0, NoToken, TRUE, 0)
    /\ UNCHANGED <<stack, parser, panicVal, fmt, consumed, rendered>>

\* Parser.recover on the value e of the panic: a runtime.Error is panicked
\* again; any other value is asserted to be an error, and the assertion
\* itself panics with a runtime.Error when e is not one (a string is not).
recover(e) ==
    IF e.type = "runtime.Error"
    THEN [panics |-> TRUE, value |-> e]
    ELSE IF e.type = "error"
    THEN [panics |-> FALSE, value |-> e]
    ELSE [panics |-> TRUE,
          value |-> [type |-> "runtime.Error",
                     format |-> "interface conversion: interface {} is %s, not error",
                     args |-> <<e.type>>]]

\* The deferred p.recover(&err) of Parse runs on a panic.
Recover ==
    /\ status = "panicking"
    /\ Len(frames) > 0
    /\ LET r == recover(panicVal) IN
       IF r.panics
       THEN /\ status' = "crashed"
            /\ panicVal' = r.value
            /\ UNCHANGED <<n, err>>
       ELSE /\ status' = "returned"
            /\ panicVal' = NoPanic
            /\ n' = NilNode
            /\ err' = r.value
    /\ frames' = <<>>
    /\ last' = Op("recover", 0, NoToken, TRUE, 0)
    /\ UNCHANGED <<stack, parser, fmt, consumed, rendered>>

\* precedence reading the next token with Pop instead of Peek(0).
precedencePops(q, s) ==
    LET r == Pop(s) IN
    [prec |-> IF r.tok.Type \in DOMAIN q.InfixParsers
              THEN q.InfixParsers[r.tok.Type].p
              ELSE 0,
     tok |-> r.tok, s |-> r.s]

\* Parser.precedence: [prec, tok, s], the token being the one peeked.
precedence(q, s) ==
    LET r == Peek(s, 0) IN
    [prec |-> IF r.tok.Type \in DOMAIN q.InfixParsers
              THEN q.InfixParsers[r.tok.Type].p
              ELSE 0,
     tok |-> r.tok, s |-> r.s]

\* parseExpression, its first part: the token is popped and the prefix
\* parser of its type is looked up in the package's PrefixParsers.
parseExpression ==
    /\ At("parseExpression", "begin")
    /\ LET r == Pop(stack)
           token == r.tok
           ok == token.Type \in DOMAIN PrefixParsers
           l == Op("parseExpression", Top.p, token, ok, Taken(stack, r.s))
       IN IF ~ok
          THEN errorf("could not parse %s", <<token>>, r.s,
                      Append(consumed, token), l)
          ELSE LET prefix == PrefixParsers[token.Type] IN
               Goes(Call([Top EXCEPT !.pc = "loop", !.token = token],
                         Frame(prefix.type, prefix.p, token, NilNode)),
                    r.s, Append(consumed, token), l)

\* parseExpression, one test of its loop: an infix parser is called on
\* left, or left is returned.
parseExpressionLoop ==
    /\ At("parseExpression", "loop")
    /\ LET pr == precedence(parser, stack)
           l == Op("loop", Top.left, pr.tok, Top.p < pr.prec,
                   Taken(stack, pr.s))
       IN IF Top.p < pr.prec
          THEN LET r == Pop(pr.s)
                   token == r.tok
                   ok == token.Type \in DOMAIN parser.InfixParsers
               IN IF ~ok
                  THEN errorf("could not parse %s", <<token>>, r.s,
                              Append(consumed, token), l)
                  ELSE LET infix == parser.InfixParsers[token.Type] IN
                       Goes(Call([Top EXCEPT !.token = token],
                                 Frame(infix.type, infix.p, token, Top.left)),
                            r.s, Append(consumed, token), l)
          ELSE Goes(Return(Top.left), pr.s, consumed, l)

Did(name) == Op(name, 0, Top.token, TRUE, 0)

\* A parser's call parser.parseExpression(precedence), resumed at pc.
Recurse(top, pc, prec, name) ==
    Goes(Call([top EXCEPT !.pc = pc],
              Frame("parseExpression", prec, NoToken, NilNode)),
         stack, consumed, Did(name))

\* NameParser.Parse
NameParserParse ==
    /\ At("NameParser", "begin")
    /\ Goes(Return(NewNameNode(Top.token.Text)), stack, consumed,
            Did("NameParser"))

\* GroupParser.Parse: n := parser.parseExpression(int(p))
GroupParserParse ==
    /\ At("GroupParser", "begin")
    /\ Recurse(Top, "expect", Top.p, "GroupParser")

\* GroupParser.Parse: parser.Expect(TokenParenR); return n
GroupParserExpect ==
    /\ At("GroupParser", "expect")
    /\ Expects(<<TokenParenR>>, Expect(stack, <<TokenParenR>>),
               Return(Top.val), "Expect")

\* UnaryParser.Parse parsing its operand at precedence 0.
UnaryParserParseLoose ==
    /\ At("UnaryParser", "begin")
    /\ Recurse(Top, "return", 0, "UnaryParser")

\* UnaryParser.Parse: right := parser.parseExpression(int(p))
UnaryParserParse ==
    /\ At("UnaryParser", "begin")
    /\ Recurse(Top, "return", Top.p, "UnaryParser")

UnaryParserReturn ==
    /\ At("UnaryParser", "return")
    /\ Goes(Return(NewUnaryNode(Top.token.Type, Top.val)), stack, consumed,
            Did("UnaryParser"))

\* UnaryPostfixParser.Parse
UnaryPostfixParserParse ==
    /\ At("UnaryPostfixParser", "begin")
    /\ Goes(Return(NewUnaryPostfixNode(Top.left, Top.token.Type)), stack,
            consumed, Did("UnaryPostfixParser"))

\* A type assertion that accepts every node.
IsAnyNode(left) == TRUE

\* l, ok := left.(*NameNode)
IsNameNode(left) == left[1] = "Name"

\* AssignParser.Parse: the left side must be a name; then
\* right := parser.parseExpression(int(p) - 1)
AssignParserParse ==
    /\ At("AssignParser", "begin")
    /\ LET ok == IsNameNode(Top.left)
           l == Op("AssignParser", Top.left, Top.token, ok, 0)
       IN IF ~ok
          THEN errorf("the left-hand side of an assignment must be a name",
                      <<>>, stack, consumed, l)
          ELSE Goes(Call([Top EXCEPT !.pc = "return"],
                         Frame("parseExpression", Top.p - 1, NoToken, NilNode)),
                    stack, consumed, l)

AssignParserReturn ==
    /\ At("AssignParser", "return")
    /\ Goes(Return(NewAssignNode(Top.left[2], Top.val)), stack, consumed,
            Op("AssignParser.return", Top.left, Top.token, TRUE, 0))

\* FunctionParser.Parse: no argument when ")" follows, else the first one.
FunctionParserParse ==
    /\ At("FunctionParser", "begin")
    /\ LET m == Match(stack, TokenParenR)
           l == Op("Match", TokenParenR, m.tok, m.ok, Taken(stack, m.s))
       IN IF m.ok
          THEN Goes(Return(NewFunctionNode(Top.left, NewListNode)), m.s,
                    Append(consumed, m.tok), l)
          ELSE Goes(Call([Top EXCEPT !.pc = "arg"],
                         Frame("parseExpression", 0, NoToken, NilNode)),
                    m.s, consumed, l)

\* FunctionParser.Parse: the argument parsed is appended; after a ","
\* comes another one, else the list ends with Expect(TokenParenR).
FunctionParserArg ==
    /\ At("FunctionParser", "arg")
    /\ LET m == Match(stack, TokenComma)
           args == ListAppend(Top.args, Top.val)
       IN IF m.ok
          THEN Goes(Call([Top EXCEPT !.args = args],
                         Frame("parseExpression", 0, NoToken, NilNode)),
                    m.s, Append(consumed, m.tok),
                    Op("Match", TokenComma, m.tok, m.ok, Taken(stack, m.s)))
          ELSE Expects(<<TokenParenR>>, Expect(m.s, <<TokenParenR>>),
                       Return(NewFunctionNode(Top.left, args)), "Expect")

\* BinaryParser.Parse: right := parser.parseExpression(int(p))
BinaryParserParse ==
    /\ At("BinaryParser", "begin")
    /\ Recurse(Top, "return", Top.p, "BinaryParser")

BinaryParserReturn ==
    /\ At("BinaryParser", "return")
    /\ Goes(Return(NewBinaryNode(Top.left, Top.token.Type, Top.val)), stack,
            consumed, Did("BinaryParser"))

\* BinaryRightParser.Parse parsing its right side at its own precedence.
BinaryRightParserParseTight ==
    /\ At("BinaryRightParser", "begin")
    /\ Recurse(Top, "return", Top.p, "BinaryRightParser")

\* BinaryRightParser.Parse: right := parser.parseExpression(int(p) - 1)
BinaryRightParserParse ==
    /\ At("BinaryRightParser", "begin")
    /\ Recurse(Top, "return", Top.p - 1, "BinaryRightParser")

BinaryRightParserReturn ==
    /\ At("BinaryRightParser", "return")
    /\ Goes(Return(NewBinaryNode(Top.left, Top.token.Type, Top.val)), stack,
            consumed, Did("BinaryRightParser"))

\* TernaryParser.Parse: node := parser.parseExpression(0)
TernaryParserParse ==
    /\ At("TernaryParser", "begin")
    /\ Recurse(Top, "colon", 0, "TernaryParser")

\* TernaryParser.Parse parsing its else branch at its own precedence.
TernaryParserColonTight ==
    /\ At("TernaryParser", "colon")
    /\ Expects(<<TokenColon>>, Expect(stack, <<TokenColon>>),
               Call([Top EXCEPT !.pc = "return", !.args = listNode(Top.val)],
                    Frame("parseExpression", Top.p, NoToken, NilNode)),
               "Expect")

\* TernaryParser.Parse: parser.Expect(TokenColon), then
\* elseNode := parser.parseExpression(int(p) - 1); node is kept in args.
TernaryParserColon ==
    /\ At("TernaryParser", "colon")
    /\ Expects(<<TokenColon>>, Expect(stack, <<TokenColon>>),
               Call([Top EXCEPT !.pc = "return", !.args = listNode(Top.val)],
                    Frame("parseExpression", Top.p - 1, NoToken, NilNode)),
               "Expect")

TernaryParserReturn ==
    /\ At("TernaryParser", "return")
    /\ Goes(Return(NewTernaryNode(Top.left, Top.args, listNode(Top.val))),
            stack, consumed, Did("TernaryParser"))

----------------------------------------------------------------------------
(* The sources parsed and the parsers that parse them.                      *)

MaxLen == 3             \* characters in a source over SourceChars
MaxArgs == 2             \* arguments of a call of the family of calls
MaxChain == 2           \* operators in a chain of unary operators

SourceChars == {"a", "+", "^", "=", "!", "?", ":", "(", ")", ","}
BinaryOps == {"+", "-", "*", "/", "^"}
PrefixOps == {"+", "-", "~", "!"}

RECURSIVE Repeat(_, _)
Repeat(c, k) == IF k = 0 THEN <<>> ELSE <<c>> \o Repeat(c, k - 1)

\* The table of TestParser: a source and the rendering of its tree.
TestTable ==
    {<<<<"a", "(", ")">>,
       <<"a", "(", ")">>>>,
     <<<<"a", "(", "b", ")">>,
       <<"a", "(", "b", ")">>>>,
     <<<<"a", "(", "b", ",", " ", "c", ")">>,
       <<"a", "(", "b", ",", " ", "c", ")">>>>,
     <<<<"a", "(", "b", ")", "(", "c", ")">>,
       <<"a", "(", "b", ")", "(", "c", ")">>>>,
     <<<<"a", "(", "b", ")", " ", "+", " ", "c", "(", "d", ")">>,
       <<"(", "a", "(", "b", ")", " ", "+", " ", "c", "(", "d", ")", ")">>>>,
     <<<<"a", "(", "b", " ", "?", " ", "c", " ", ":", " ", "d", ",", " ", "e", " ", "+", " ", "f", ")">>,
       <<"a", "(", "(", "b", " ", "?", " ", "c", " ", ":", " ", "d", ")", ",", " ", "(", "e", " ", "+", " ", "f", ")", ")">>>>,
     <<<<"~", "!", "-", "+", "a">>,
       <<"(", "~", "(", "!", "(", "-", "(", "+", "a", ")", ")", ")", ")">>>>,
     <<<<"a", "!", "!", "!">>,
       <<"(", "(", "(", "a", "!", ")", "!", ")", "!", ")">>>>,
     <<<<"-", "a", " ", "*", " ", "b">>,
       <<"(", "(", "-", "a", ")", " ", "*", " ", "b", ")">>>>,
     <<<<"!", "a", " ", "+", " ", "b">>,
       <<"(", "(", "!", "a", ")", " ", "+", " ", "b", ")">>>>,
     <<<<"~", "a", " ", "^", " ", "b">>,
       <<"(", "(", "~", "a", ")", " ", "^", " ", "b", ")">>>>,
     <<<<"-", "a", "!">>,
       <<"(", "-", "(", "a", "!", ")", ")">>>>,
     <<<<"!", "a", "!">>,
       <<"(", "!", "(", "a", "!", ")", ")">>>>,
     <<<<"a", " ", "=", " ", "b", " ", "+", " ", "c", " ", "*", " ", "d", " ", "^", " ", "e", " ", "-", " ", "f", " ", "/", " ", "g">>,
       <<"(", "a", " ", "=", " ", "(", "(", "b", " ", "+", " ", "(", "c", " ", "*", " ", "(", "d", " ", "^", " ", "e", ")", ")", ")", " ", "-", " ", "(", "f", " ", "/", " ", "g", ")", ")", ")">>>>,
     <<<<"a", " ", "=", " ", "b", " ", "=", " ", "c">>,
       <<"(", "a", " ", "=", " ", "(", "b", " ", "=", " ", "c", ")", ")">>>>,
     <<<<"a", " ", "+", " ", "b", " ", "-", " ", "c">>,
       <<"(", "(", "a", " ", "+", " ", "b", ")", " ", "-", " ", "c", ")">>>>,
     <<<<"a", " ", "*", " ", "b", " ", "/", " ", "c">>,
       <<"(", "(", "a", " ", "*", " ", "b", ")", " ", "/", " ", "c", ")">>>>,
     <<<<"a", " ", "^", " ", "b", " ", "^", " ", "c">>,
       <<"(", "a", " ", "^", " ", "(", "b", " ", "^", " ", "c", ")", ")">>>>,
     <<<<"a", " ", "?", " ", "b", " ", ":", " ", "c", " ", "?", " ", "d", " ", ":", " ", "e">>,
       <<"(", "a", " ", "?", " ", "b", " ", ":", " ", "(", "c", " ", "?", " ", "d", " ", ":", " ", "e", ")", ")">>>>,
     <<<<"a", " ", "?", " ", "b", " ", "?", " ", "c", " ", ":", " ", "d", " ", ":", " ", "e">>,
       <<"(", "a", " ", "?", " ", "(", "b", " ", "?", " ", "c", " ", ":", " ", "d", ")", " ", ":", " ", "e", ")">>>>,
     <<<<"a", " ", "+", " ", "b", " ", "?", " ", "c", " ", "*", " ", "d", " ", ":", " ", "e", " ", "/", " ", "f">>,
       <<"(", "(", "a", " ", "+", " ", "b", ")", " ", "?", " ", "(", "c", " ", "*", " ", "d", ")", " ", ":", " ", "(", "e", " ", "/", " ", "f", ")", ")">>>>,
     <<<<"a", " ", "+", " ", "(", "b", " ", "+", " ", "c", ")", " ", "+", " ", "d">>,
       <<"(", "(", "a", " ", "+", " ", "(", "b", " ", "+", " ", "c", ")", ")", " ", "+", " ", "d", ")">>>>,
     <<<<"a", " ", "^", " ", "(", "b", " ", "+", " ", "c", ")">>,
       <<"(", "a", " ", "^", " ", "(", "b", " ", "+", " ", "c", ")", ")">>>>,
     <<<<"(", "!", "a", ")", "!">>,
       <<"(", "(", "!", "a", ")", "!", ")">>>>}

TestSources == {t[1] : t \in TestTable}

\* x o1 y o2 z, and the chained assignment.
BinaryChains ==
    {<<"x", o1, "y", o2, "z">> : o1 \in BinaryOps, o2 \in BinaryOps}
        \cup {<<"x", "=", "y", "=", "z">>}

\* Prefix operators, an operand, postfix operators; a prefix operator
\* before a binary operation or a call.
UnaryChains ==
    {pre \o <<"a">> \o Repeat("!", k) :
        pre \in SeqsUpTo(PrefixOps, MaxChain), k \in 0..MaxChain}
        \cup {<<u, "a", o, "b">> : u \in PrefixOps, o \in BinaryOps}
        \cup {<<u, "a", "(", ")">> : u \in PrefixOps}

\* Assignments to a name and to something else.
AssignSources ==
    {<<"a", " ", "+", " ", "b", " ", "=", " ", "c">>,
     <<"a", "?", "b", ":", "c", "=", "d">>,
     <<"-", "a", "=", "b">>,
     <<"a", "(", ")", "=", "b">>,
     <<"a", "!", "=", "b">>,
     <<"(", "a", ")", "=", "b">>,
     <<"a", "=", "b">>,
     <<"a", " ", "=", " ", "b", " ", "+", " ", "c">>}

\* Sources that end early, or go on after an expression.
BrokenSources ==
    {<<"a">>,
     <<"a", ")">>,
     <<"a", ",">>,
     <<"a", ":">>,
     <<"a", "~">>,
     <<"a", " ", "b">>,
     <<"(", "a", " ", "b">>,
     <<"(", "a">>,
     <<"(", "(", "a", ")">>,
     <<"a", "(", "b", " ", "c", ")">>,
     <<"a", "(", "b", ",", ")">>,
     <<"a", "(", "b">>,
     <<"a", "?", "b">>,
     <<"a", "?", "b", " ", "c">>,
     <<"a", "?", "b", ")">>,
     <<"a", "?", "b", ":">>,
     <<"(", "a", ")", ")">>,
     <<"(", " ", "a", " ", "?", " ", "b", " ", ":", " ", "c", " ", ")">>}

ArithmeticOps == {"+", "-", "*", "/"}

\* Ternaries chained in the else and in the then branch, and ternaries of
\* additive and multiplicative expressions.
TernaryChains ==
    {<<"c", "?", "t", ":", "d", "?", "u", ":", "e">>,
     <<"c", "?", "d", "?", "t", ":", "u", ":", "e">>}
        \cup {<<"a", o1, "b", "?", "c", o2, "d", ":", "e", o3, "f">> :
                o1 \in ArithmeticOps, o2 \in ArithmeticOps, o3 \in ArithmeticOps}

\* Ternaries whose then branch is followed by something else than ":".
TernaryNoColon ==
    {<<"a", "?", "b">>,
     <<"a", "?", "b", " ", "c">>,
     <<"a", "?", "b", ")">>,
     <<"a", "?", "b", ",", "c">>,
     <<"a", "?", "b", "=", "c">>,
     <<"a", "?", "b", "?", "c", ":", "d">>}

\* The argument expressions of the family of calls.
ArgSources == <<<<"a">>, <<"b", "+", "c">>, <<"x", "=", "y">>>>

\* Lists of up to MaxArgs arguments, each an index of ArgSources.
ArgLists == SeqsUpTo(DOMAIN ArgSources, MaxArgs)

RECURSIVE CommaSeparated(_)
CommaSeparated(args) ==
    IF args = <<>> THEN <<>>
    ELSE IF Len(args) = 1 THEN ArgSources[args[1]]
    ELSE ArgSources[args[1]] \o <<",">> \o CommaSeparated(Tail(args))

\* f(arg, ..., arg)
CallSource(args) == <<"f", "(">> \o CommaSeparated(args) \o <<")">>

CallSources == {CallSource(args) : args \in ArgLists}

\* Calls with a "," followed by ")" and calls with an argument followed by
\* something else than "," or ")".
CallBroken ==
    {<<"f", "(", "a", ",", ")">>,
     <<"f", "(", ",", ")">>,
     <<"f", "(", "a", ",", "b", ",", ")">>,
     <<"f", "(", "a", " ", "b", ")">>,
     <<"f", "(", "a", ":", "b", ")">>,
     <<"f", "(", "a", ",", "b", " ", "c", ")">>,
     <<"f", "(", "a">>,
     <<"f", "(", "a", ",", "b">>}

Sources ==
    SeqsUpTo(SourceChars, MaxLen) \cup TestSources \cup BinaryChains
        \cup UnaryChains \cup AssignSources \cup BrokenSources
        \cup TernaryChains \cup TernaryNoColon
        \cup CallSources \cup CallBroken

\* A parser over the package's maps but without the prefix parser of "(".
NoGroupParser ==
    [PrefixParsers |-> [k \in DOMAIN PrefixParsers \ {TokenParenL} |-> PrefixParsers[k]],
     InfixParsers |-> InfixParsers]

Parsers == {BuiltinParser, NewParser, NoGroupParser}

Init ==
    /\ \E src \in Sources : stack = NewStack(NewLexer(src))
    /\ parser \in Parsers
    /\ frames = <<>>
    /\ status = "idle"
    /\ n = NilNode
    /\ err = NoPanic
    /\ panicVal = NoPanic
    /\ fmt = NoFmt
    /\ consumed = <<>>
    /\ last = NoOp
    /\ rendered = <<>>

Next ==
    \/ Parse
    \/ ParseReturn
    \/ Recover
    \/ StringStep
    \/ parseExpression
    \/ parseExpressionLoop
    \/ NameParserParse
    \/ GroupParserParse
    \/ GroupParserExpect
    \/ UnaryParserParse
    \/ UnaryParserReturn
    \/ UnaryPostfixParserParse
    \/ AssignParserParse
    \/ AssignParserReturn
    \/ FunctionParserParse
    \/ FunctionParserArg
    \/ BinaryParserParse
    \/ BinaryParserReturn
    \/ BinaryRightParserParse
    \/ BinaryRightParserReturn
    \/ TernaryParserParse
    \/ TernaryParserColon
    \/ TernaryParserReturn

Spec == Init /\ [][Next]_vars

MaxRounds == 1          \* times the rendering of a tree is parsed again

\* The rendering of the tree Parse returned is the source of a new lexer,
\* Stack and call of Parse, with the same Parser maps.
Reparse ==
    /\ status = "returned"
    /\ err = NoPanic
    /\ Len(rendered) < MaxRounds
    /\ rendered' = Append(rendered, NodeString(n))
    /\ stack' = NewStack(NewLexer(NodeString(n)))
    /\ frames' = <<>>
    /\ status' = "idle"
    /\ n' = NilNode
    /\ err' = NoPanic
    /\ panicVal' = NoPanic
    /\ fmt' = NoFmt
    /\ consumed' = <<>>
    /\ last' = NoOp
    /\ UNCHANGED parser

NextRoundTrip ==
    \/ Next
    \/ Reparse

SpecRoundTrip == Init /\ [][NextRoundTrip]_vars

\* The call of Parse has ended: it returned, a panic left it, or the
\* runtime ended the program.
Ended == status \in {"returned", "crashed", "fatal"}

Src == stack.lexer.src

\* TestParser: with the maps of the package every source of the table is
\* parsed without an error, to a tree rendered as the table says.
TestParserPasses ==
    \A t \in TestTable :
        (Ended /\ Src = t[1] /\ parser.InfixParsers = InfixParsers)
            => /\ status = "returned"
               /\ err = NoPanic
               /\ NodeString(n) = t[2]

----------------------------------------------------------------------------
(* Properties of the Stack. *)

Reverse(q) == [i \in 1..Len(q) |-> q[Len(q) + 1 - i]]

\* The first k tokens of the stream of a source: what k Pops return from a
\* fresh Stack over a fresh lexer.
Stream(src, k) == PopSeq(NewStack(NewLexer(src)), k)

\* C3 (as claimed): after Push(t1, ..., tk) the next k Pops return
\* t1, ..., tk in that order.
C3_PushThenPopSameOrder ==
    last.op = "Push" => PopSeq(stack, Len(last.arg)) = last.arg

\* C3 (amended): after Push(t1, ..., tk) the next k Pops return the pushed
\* tokens last first: tk, ..., t1.
C3_PushThenPopReversed ==
    last.op = "Push" => PopSeq(stack, Len(last.arg)) = Reverse(last.arg)

\* A Push of two different tokens onto a buffer that already held one.
C3_Witness ==
    /\ last.op = "Push"
    /\ Len(last.arg) = 2
    /\ last.arg[1] # last.arg[2]
    /\ stack.count > Len(last.arg)

\* C4: Peek(index), index >= 0, returns the token the (index+1)-th
\* following Pop returns.
C4_PeekIsFuturePop ==
    (last.op = "Peek" /\ last.arg >= 0)
        => last.tok = PopSeq(stack, last.arg + 1)[last.arg + 1]

\* C5: the tokens consumed, followed by the tokens still to pop, are the
\* stream of the source in its order, whatever was peeked, matched or
\* expected in between; and Peek(index) calls the lexer at most index+1
\* times.
C5_ConsumedIsPrefix ==
    /\ consumed \o PopSeq(stack, MaxCount + 1)
          = Stream(stack.lexer.src, Len(consumed) + MaxCount + 1)
    /\ (last.op = "Peek" /\ last.arg >= 0) => last.taken <= last.arg + 1

\* A failed Match or Expect after a token was consumed and a Peek(1) had
\* filled the buffer from the lexer.
C5_Witness ==
    /\ last.op \in {"Match", "Expect"}
    /\ ~last.ok
    /\ last.tok.Type = TokenName
    /\ Len(consumed) >= 1
    /\ consumed[1].Type = TokenParenR
    /\ stack.count >= 2

----------------------------------------------------------------------------
(* Properties of the parser. *)

Name(c) == NewNameNode(c)

\* C1: a parse that fails ends with Parse returning an error and no node;
\* no panic leaves Parse.
C1_FailureIsReturned ==
    /\ status \notin {"crashed", "fatal"}
    /\ (status = "returned" /\ err # NoPanic) => n = NilNode

\* The binding powers C2 states.
ClaimedPower(o) ==
    CASE o \in {"+", "-"} -> 3
      [] o \in {"*", "/"} -> 4
      [] o = "^" -> 5

\* C2: with the maps of the package, x o1 y o2 z is parsed to
\* (x o1 (y o2 z)) when o2 binds tighter than o1 or both are ^, and to
\* ((x o1 y) o2 z) otherwise; x = y = z is parsed to (x = (y = z)).
C2_BinaryChains ==
    (Ended /\ parser = BuiltinParser) =>
        /\ \A o1 \in BinaryOps, o2 \in BinaryOps :
            Src = <<"x", o1, "y", o2, "z">> =>
                /\ status = "returned"
                /\ err = NoPanic
                /\ n = IF ClaimedPower(o2) > ClaimedPower(o1)
                            \/ (o1 = "^" /\ o2 = "^")
                       THEN NewBinaryNode(Name("x"), stringToToken[o1],
                                NewBinaryNode(Name("y"), stringToToken[o2], Name("z")))
                       ELSE NewBinaryNode(
                                NewBinaryNode(Name("x"), stringToToken[o1], Name("y")),
                                stringToToken[o2], Name("z"))
        /\ Src = <<"x", "=", "y", "=", "z">> =>
                /\ status = "returned"
                /\ err = NoPanic
                /\ n = NewAssignNode("x", NewAssignNode("y", Name("z")))

\* x ^ y ^ z has been parsed to (x ^ (y ^ z)).
C2_Witness ==
    /\ status = "returned"
    /\ parser = BuiltinParser
    /\ Src = <<"x", "^", "y", "^", "z">>
    /\ n = NewBinaryNode(Name("x"), TokenCaret,
                NewBinaryNode(Name("y"), TokenCaret, Name("z")))

\* C6: a token whose type has no prefix parser in the maps of the parser
\* that parses makes parseExpression fail.
C6_PrefixOfTheParser ==
    (last.op = "parseExpression" /\ last.tok.Type \notin DOMAIN parser.PrefixParsers)
        => /\ status = "panicking"
           /\ panicVal = StringPanic("could not parse %s", <<last.tok>>)

\* The value the running call has just been returned.
Returned == IF Top.fn = "parseExpression" THEN Top.left ELSE Top.val

\* C7: AssignParser.Parse called on a left side that is no name panics
\* with its message before a token after the "=" is consumed or fetched;
\* called on a name it returns the assignment to that name.
C7_AssignNeedsName ==
    /\ (last.op = "AssignParser" /\ last.arg[1] # "Name") =>
            /\ status = "panicking"
            /\ panicVal = StringPanic(
                    "the left-hand side of an assignment must be a name", <<>>)
            /\ consumed[Len(consumed)].Type = TokenAssignment
            /\ consumed = Stream(Src, Len(consumed))
            /\ stack.count = 0
            /\ stack.lexer.calls = Len(consumed)
    /\ (last.op = "AssignParser" /\ last.arg[1] = "Name") =>
            /\ status = "running"
            /\ Top.fn = "parseExpression"
            /\ Top.pc = "begin"
    /\ last.op = "AssignParser.return" =>
            /\ last.arg[1] = "Name"
            /\ status = "running"
            /\ Returned[1] = "Assign"
            /\ Returned[2] = last.arg[2]

\* AssignParser.Parse has panicked on the ternary of a ? b : c = d.
C7_Witness ==
    /\ last.op = "AssignParser"
    /\ last.arg[1] = "Ternary"
    /\ status = "panicking"
    /\ Src = <<"a", "?", "b", ":", "c", "=", "d">>

Range(q) == {q[i] : i \in DOMAIN q}

\* C8: Expect on a token of another kind pushes it back and panics with a
\* message naming the expected kinds and the kind found; on a token of an
\* expected kind it consumes that token.
C8_ExpectFailure ==
    last.op = "Expect" =>
        IF last.ok
        THEN /\ last.tok.Type \in Range(last.arg)
             /\ consumed[Len(consumed)] = last.tok
             /\ consumed = Stream(Src, Len(consumed))
        ELSE /\ last.tok.Type \notin Range(last.arg)
             /\ PopSeq(stack, 1) = <<last.tok>>
             /\ consumed \o <<last.tok>> = Stream(Src, Len(consumed) + 1)
             /\ status \in {"formatting", "panicking"}
             /\ status = "panicking" =>
                    panicVal = StringPanic("expected token %s and found %s",
                                           <<last.arg, last.tok.Type>>)

\* C9: with the maps of the package parseExpression is never called with a
\* negative precedence, and a next token without infix parser ends the loop:
\* left is returned, no panic is raised, and the token is the next popped.
C9_NoInfixEndsLoop ==
    parser = BuiltinParser =>
        /\ \A i \in DOMAIN frames :
                frames[i].fn = "parseExpression" => frames[i].p >= 0
        /\ (last.op = "loop" /\ last.tok.Type \notin DOMAIN InfixParsers) =>
                /\ ~last.ok
                /\ status = "running"
                /\ Returned = last.arg
                /\ PopSeq(stack, 1) = <<last.tok>>
                /\ consumed \o <<last.tok>> = Stream(Src, Len(consumed) + 1)
        /\ (Ended /\ Src \in {<<"a", ")">>, <<"a", " ", "b">>}) =>
                /\ status = "returned"
                /\ err = NoPanic
                /\ n = Name("a")

\* The loop of the outermost parseExpression has ended at the ")" of a ).
C9_Witness ==
    /\ parser = BuiltinParser
    /\ Src = <<"a", ")">>
    /\ last.op = "loop"
    /\ last.tok.Type = TokenParenR
    /\ Len(frames) = 1
    /\ Top.val = Name("a")

\* The prefix operators of pre applied to node, the leftmost outermost.
RECURSIVE Prefixed(_, _)
Prefixed(pre, node) ==
    IF pre = <<>> THEN node
    ELSE NewUnaryNode(stringToToken[Head(pre)], Prefixed(Tail(pre), node))

\* k postfix "!" applied to node, the first innermost.
RECURSIVE Postfixed(_, _)
Postfixed(node, k) ==
    IF k = 0 THEN node
    ELSE NewUnaryPostfixNode(Postfixed(node, k - 1), TokenExclamation)

\* C10: prefix operators nest right to left, postfix "!" folds left and
\* binds tighter than a prefix operator, as a call does; a prefix operator
\* binds tighter than every binary operator.
C10_UnaryChains ==
    (Ended /\ parser = BuiltinParser) =>
        /\ \A pre \in SeqsUpTo(PrefixOps, MaxChain), k \in 0..MaxChain :
            Src = pre \o <<"a">> \o Repeat("!", k) =>
                /\ status = "returned"
                /\ err = NoPanic
                /\ n = Prefixed(pre, Postfixed(Name("a"), k))
        /\ \A u \in PrefixOps, o \in BinaryOps :
            Src = <<u, "a", o, "b">> =>
                /\ status = "returned"
                /\ err = NoPanic
                /\ n = NewBinaryNode(NewUnaryNode(stringToToken[u], Name("a")),
                                     stringToToken[o], Name("b"))
        /\ \A u \in PrefixOps :
            Src = <<u, "a", "(", ")">> =>
                /\ status = "returned"
                /\ err = NoPanic
                /\ n = NewUnaryNode(stringToToken[u],
                            NewFunctionNode(Name("a"), NewListNode))

\* - ! a ! ! has been parsed to (-(!((a!)!))).
C10_Witness ==
    /\ status = "returned"
    /\ parser = BuiltinParser
    /\ Src = <<"-", "!", "a", "!", "!">>
    /\ n = NewUnaryNode(TokenMinus, NewUnaryNode(TokenExclamation,
                NewUnaryPostfixNode(
                    NewUnaryPostfixNode(Name("a"), TokenExclamation),
                    TokenExclamation)))

\* The ternary node of a condition and two branches of one node each.
Ternary(c, t, e) == <<"Ternary", c, <<"List", <<t>> >>, <<"List", <<e>> >> >>

Binary(l, o, r) == <<"Binary", l, stringToToken[o], r>>

\* C11: a ternary in the else branch and a ternary in the then branch nest
\* inside the outer one; additive and multiplicative expressions are the
\* condition and the branches of the ternary; a then branch that is not
\* followed by ":" fails Expect(TokenColon) and no tree is returned.
C11_Ternary ==
    /\ (Ended /\ parser = BuiltinParser) =>
        /\ Src = <<"c", "?", "t", ":", "d", "?", "u", ":", "e">> =>
                /\ status = "returned"
                /\ err = NoPanic
                /\ n = Ternary(Name("c"), Name("t"),
                            Ternary(Name("d"), Name("u"), Name("e")))
        /\ Src = <<"c", "?", "d", "?", "t", ":", "u", ":", "e">> =>
                /\ status = "returned"
                /\ err = NoPanic
                /\ n = Ternary(Name("c"),
                            Ternary(Name("d"), Name("t"), Name("u")),
                            Name("e"))
        /\ \A o1 \in ArithmeticOps, o2 \in ArithmeticOps, o3 \in ArithmeticOps :
            Src = <<"a", o1, "b", "?", "c", o2, "d", ":", "e", o3, "f">> =>
                /\ status = "returned"
                /\ err = NoPanic
                /\ n = Ternary(Binary(Name("a"), o1, Name("b")),
                               Binary(Name("c"), o2, Name("d")),
                               Binary(Name("e"), o3, Name("f")))
        /\ Src \in TernaryNoColon => status # "returned"
    /\ (last.op = "Expect" /\ last.arg = <<TokenColon>> /\ ~last.ok) =>
            /\ status \in {"formatting", "panicking", "fatal"}
            /\ Top.fn = "TernaryParser"
            /\ Top.pc = "colon"

\* c ? d ? t : u : e has been parsed to (c ? (d ? t : u) : e).
C11_Witness ==
    /\ status = "returned"
    /\ parser = BuiltinParser
    /\ Src = <<"c", "?", "d", "?", "t", ":", "u", ":", "e">>
    /\ NodeString(n) = <<"(", "c", " ", "?", " ", "(", "d", " ", "?", " ", "t",
                         " ", ":", " ", "u", ")", " ", ":", " ", "e", ")">>

\* The trees of the argument expressions of ArgSources.
ArgTrees ==
    <<Name("a"),
      Binary(Name("b"), "+", Name("c")),
      <<"Assign", "x", Name("y")>>>>

FunctionCall(callee, args) == <<"Function", callee, <<"List", args>> >>

\* C12: f(arg, ..., arg) with k >= 0 arguments is a FunctionCall node of f
\* whose list holds the k arguments in source order, each a whole expression
\* parsed at binding power 0; a(b)(c) is the call of a(b); a "," followed by
\* ")" and an argument followed by neither "," nor ")" return no tree.
C12_FunctionCall ==
    (Ended /\ parser = BuiltinParser) =>
        /\ \A args \in ArgLists :
            Src = CallSource(args) =>
                /\ status = "returned"
                /\ err = NoPanic
                /\ n = FunctionCall(Name("f"),
                                    [i \in DOMAIN args |-> ArgTrees[args[i]]])
        /\ Src = <<"a", "(", "b", ")", "(", "c", ")">> =>
                /\ status = "returned"
                /\ err = NoPanic
                /\ n = FunctionCall(FunctionCall(Name("a"), <<Name("b")>>),
                                    <<Name("c")>>)
        /\ Src \in CallBroken => status # "returned"

\* f(b+c,x=y) has been parsed to the call of f with (b + c) and (x = y).
C12_Witness ==
    /\ status = "returned"
    /\ parser = BuiltinParser
    /\ Src = CallSource(<<2, 3>>)
    /\ n[3][2] = <<ArgTrees[2], ArgTrees[3]>>
    /\ NodeString(n) = <<"f", "(", "(", "b", " ", "+", " ", "c", ")", ",", " ",
                         "(", "x", " ", "=", " ", "y", ")", ")">>

\* C13: when Parse has returned a tree, parsing the rendering of the tree
\* returns a tree again, and its rendering is the same characters.
C13_RenderingIsFixedPoint ==
    Len(rendered) > 0 =>
        /\ status \notin {"formatting", "panicking", "crashed", "fatal"}
        /\ status = "returned" =>
                /\ err = NoPanic
                /\ NodeString(n) = rendered[Len(rendered)]

\* The rendering a((b ? c : d), (e + f)) of the tree of
\* a(b ? c : d, e + f) has been parsed again, to a call of two arguments.
C13_Witness ==
    /\ Len(rendered) > 0
    /\ status = "returned"
    /\ parser = BuiltinParser
    /\ n[1] = "Function"
    /\ Len(n[3][2]) = 2
    /\ n[3][2][1][1] = "Ternary"
    /\ n[3][2][2][1] = "Binary"
    /\ Len(Src) > 17
    /\ Src = rendered[Len(rendered)]
    /\ Src = NodeString(n)

\* C14: TokenType.String returns for every kind, the kind of names, which
\* has no entry in tokenNames, included; so the message of a failed Expect
\* that found a name is built and the program does not end in the rendering
\* of the kind.
C14_StringTerminates ==
    /\ status # "fatal"
    /\ (last.op = "Expect" /\ ~last.ok /\ last.tok.Type = TokenName /\ Ended) =>
            \/ panicVal.format = "expected token %s and found %s"
            \/ err.format = "expected token %s and found %s"

====
